---- MODULE Spec2Model ----
(***************************************************************************)
(* Order placement of the shop backend (routes/orders.js, and its revision *)
(* with SELECT ... FOR UPDATE), the admin product writes of                *)
(* routes/products.js, and the PostgreSQL store they run against           *)
(* (READ COMMITTED, row locks held to the end of the transaction).         *)
(*                                                                         *)
(* Money: stored columns are DECIMAL(10,2) and are kept in cents.  The     *)
(* values the handler computes in JavaScript (price * (1 - discount/100))  *)
(* are kept exactly, in hundredths of a cent (discounts are whole          *)
(* percents in the modelled inputs), and rounded to cents when inserted.   *)
(***************************************************************************)
EXTENDS Integers, Sequences, FiniteSets, TLC

\* ------------------------------------------------------------------ bounds
MaxFaults == 1        \* store statements that may fail in one run
MaxAdminOps == 1      \* admin product creations / updates in one run
MaxRequests == 2      \* order-placement requests received in one run
MaxStatusOps == 2     \* status-update requests in one run
MaxAddressOps == 2    \* address requests in one run
PoolMax == 1          \* config/database.js: max: 1

Requests == {1, 2}    \* requests that can be in flight at once
Instances == {1, 2}   \* server processes, each with its own pool
ProductIds == {1, 2, 3}   \* ids the products table may hold
AddressIds == {1, 2}

\* ------------------------------------------------------ request body values
\* A quantity of the JSON body: an integer v, the fraction v + 1/2, or absent.
QInt(n) == [k |-> "int", v |-> n]
QFrac(n) == [k |-> "frac", v |-> n]
QUndef == [k |-> "undef", v |-> 0]

Item(p, q) == [product_id |-> p, quantity |-> q]

\* product_id 0 stands for a missing product_id; product 3 does not exist
\* until an admin creates it.
ItemLists ==
  { <<>>,
    << Item(1, QInt(2)) >>,
    << Item(1, QInt(4)) >>,
    << Item(2, QInt(2)) >>,
    << Item(1, QInt(2)), Item(2, QInt(4)) >>,
    << Item(2, QInt(1)), Item(1, QInt(4)) >>,
    << Item(1, QInt(3)), Item(1, QInt(3)) >>,
    << Item(2, QInt(1)), Item(2, QInt(1)) >>,
    << Item(1, QInt(0)), Item(2, QInt(4)) >>,
    << Item(1, QInt(2)), Item(1, QInt(-1)) >>,
    << Item(1, QUndef) >>,
    << Item(1, QFrac(1)) >>,
    << Item(0, QInt(2)) >>,
    << Item(3, QInt(2)) >> }

\* Well-formed bodies, for the runs in which two requests are in flight.
ConcItemLists ==
  { << Item(1, QInt(2)) >>,
    << Item(1, QInt(4)) >>,
    << Item(1, QInt(2)), Item(2, QInt(4)) >>,
    << Item(2, QInt(1)), Item(1, QInt(4)) >>,
    << Item(1, QInt(2)), Item(1, QInt(-1)) >>,
    << Item(3, QInt(2)) >> }

\* <<authenticated user, address_id of the body>>; address_id 0: none in
\* the body; 3: no such row.  Address 1 belongs to cust, 2 to other.
Callers == { <<"cust", 1>>, <<"cust", 2>>, <<"cust", 3>>, <<"cust", 0>>,
             <<"admin", 1>>, <<"admin", 3>> }
ConcCallers == { <<"cust", 1>>, <<"admin", 1>> }

\* ------------------------------------------------------------- JS helpers
\* !quantity
Falsy(q) == q.k = "undef" \/ (q.k = "int" /\ q.v = 0)

\* quantity <= 0  (undefined <= 0 is false)
LeqZero(q) == (q.k = "int" /\ q.v <= 0) \/ (q.k = "frac" /\ q.v < 0)

\* !product_id || !quantity || quantity <= 0
InvalidItem(item) ==
  item.product_id = 0 \/ Falsy(item.quantity) \/ LeqZero(item.quantity)

\* product.stock_quantity < quantity
StockInsufficientOffByOne(stock, q) ==
  IF q.k = "frac" THEN stock < q.v ELSE q.k = "int" /\ stock + 1 < q.v

StockInsufficient(stock, q) ==
  IF q.k = "frac" THEN stock < q.v + 1 ELSE q.k = "int" /\ stock < q.v

\* product.price * (1 - product.discount / 100), in hundredths of a cent
UnitPriceNoDiscount(price, discount) == price * 100

UnitPrice(price, discount) == price * (100 - discount)

\* price * quantity, in hundredths of a cent
Subtotal(unit, q) ==
  IF q.k = "int" THEN unit * q.v
  ELSE IF q.k = "frac" THEN (unit * (2 * q.v + 1)) \div 2
  ELSE 0

\* DECIMAL(10,2): a value in hundredths of a cent rounded to cents on insert
Round2(x) == (x + 50) \div 100

\* ------------------------------------------------------------ error values
Msg(type, p, a, q) ==
  [type |-> type, product |-> p, available |-> a, requested |-> q]

ItemValidationError == Msg("invalid_item", 0, 0, QUndef)
ProductNotFound(p) == Msg("product_not_found", p, 0, QUndef)
InsufficientStock(p, a, q) == Msg("insufficient_stock", p, a, q)
StoreError == Msg("store_error", 0, 0, QUndef)
ForeignKeyViolation == Msg("store_foreign_key", 0, 0, QUndef)
InvalidIntegerError(q) == Msg("store_invalid_integer", 0, 0, q)
RequiredFieldsError == Msg("address_and_items_required", 0, 0, QUndef)
AddressNotFound == Msg("address_not_found", 0, 0, QUndef)
OrderCreated == Msg("order_created", 0, 0, QUndef)
RequestTimeout == Msg("request_timeout", 0, 0, QUndef)
QueryReadTimeout == Msg("query_read_timeout", 0, 0, QUndef)
NoError == Msg("none", 0, 0, QUndef)

Response(status, error, message) ==
  [status |-> status, error |-> error, message |-> message]

NoResponse == Response(0, "", NoError)

\* ------------------------------------------------ status-update body values
\* A value of the JSON body: its JavaScript type and the text the store
\* receives for it as a query parameter.
JsUndefined == [k |-> "undefined", v |-> ""]
JsNull == [k |-> "null", v |-> ""]
JsString(str) == [k |-> "string", v |-> str]
JsZero == [k |-> "number", v |-> "0"]
JsFalse == [k |-> "boolean", v |-> "false"]

\* if (value)
Truthy(x) ==
  \/ x.k = "string" /\ x.v # ""
  \/ x.k = "number" /\ x.v # "0"
  \/ x.k = "boolean" /\ x.v = "true"

\* list.includes(value)
Includes(list, x) == x.k = "string" /\ x.v \in list

\* The column value a VARCHAR column takes from the parameter; a null
\* parameter is SQL NULL.
SqlNull == "NULL"
SqlText(x) == IF x.k = "null" THEN SqlNull ELSE x.v

validStatuses == {"pending", "processing", "shipped", "delivered", "cancelled"}
validPaymentStatuses == {"unpaid", "paid", "refunded"}

StatusBody(st, pay) == [status |-> st, payment_status |-> pay]

\* Bodies of status-update requests: every enumerated value, values outside
\* the sets, the falsy values, absent fields, and both fields together.
StatusBodies ==
  {StatusBody(JsString(x), JsUndefined) : x \in validStatuses \cup {"bogus", ""}}
  \cup {StatusBody(JsUndefined, JsString(x)) : x \in validPaymentStatuses \cup {"bogus", ""}}
  \cup { StatusBody(JsUndefined, JsUndefined),
         StatusBody(JsNull, JsUndefined),
         StatusBody(JsZero, JsUndefined),
         StatusBody(JsUndefined, JsFalse),
         StatusBody(JsString("shipped"), JsString("paid")),
         StatusBody(JsString(""), JsString("paid")),
         StatusBody(JsString("bogus"), JsString("paid")),
         StatusBody(JsString("shipped"), JsString("bogus")) }

\* Order ids of status-update requests; an id names no order until the
\* order with that id is committed.
StatusOrderIds == {1, 2}

\* A status-update request and its answer; was: the status and
\* payment_status the order had before a successful update.
StatusResponse(u, id, body, code, error) ==
  [by |-> u, id |-> id, body |-> body, code |-> code, error |-> error,
   was |-> << >>]

NoStatusResp == StatusResponse("", 0, StatusBody(JsUndefined, JsUndefined), 0, "")

\* ------------------------------------------------------------ read requests
\* A read request: kind "byId" (GET /orders/:id), "list" (GET /orders) or
\* "product" (GET /products/:id); rows, items and stock are what its queries
\* returned; code and items are the answer; failed: a query of it rejected.
NoReader ==
  [pc |-> "idle", kind |-> "", inst |-> 0, user |-> "", id |-> 0,
   rows |-> {}, items |-> {}, stock |-> 0, code |-> 0, failed |-> FALSE,
   prev |-> << >>, snap |-> << >>]

\* ------------------------------------------------------------------- state
VARIABLES
  rowLock,      \* TRUE: the revision whose product read is SELECT ... FOR UPDATE
  products,     \* committed products rows
  addresses,    \* committed customer_addresses rows: id -> owner
  orders,       \* committed orders rows
  order_items,  \* committed order_items rows
  nextOrderId,  \* orders.id SERIAL
  nextItemId,   \* order_items.id SERIAL
  req,          \* each order-placement request: handler position and locals
  received,     \* order-placement requests received so far
  tx,           \* each request's open transaction: its uncommitted writes
  lock,         \* row lock of each products row: holder request or 0
  pool,         \* idle clients of each instance's pool
  faults,       \* store statements that have failed so far
  adminOps,     \* admin product writes so far
  applied,      \* history: stock each request's writes took off each committed row
  now,          \* the clock: it ticks with every status-update request
  statusLog,    \* history: <<order id, requester>> of every status update applied
  statusResp,   \* the last status-update request and its answer
  reader,       \* a read request (order by id, order list, product): position and rows seen
  addressCity,  \* committed customer_addresses rows: id -> city
  addrReq       \* an address request (update, delete): position and answer

statusVars == << now, statusLog, statusResp >>

addressVars == << addressCity, addrReq >>

\* The state of the requests that are no order placement and no product write.
sideVars == << statusVars, reader, addressVars >>

vars == << rowLock, products, addresses, orders, order_items, nextOrderId,
           nextItemId, req, received, tx, lock, pool, faults, adminOps, applied,
           sideVars >>

NoProduct == [exists |-> FALSE, price |-> 0, discount |-> 0, stock_quantity |-> 0]
Product(price, discount, stock) ==
  [exists |-> TRUE, price |-> price, discount |-> discount, stock_quantity |-> stock]

NoWrites == [p \in {} |-> 0]
NoTx == [active |-> FALSE, stock |-> NoWrites, order |-> <<>>, items |-> <<>>]

IdleReq ==
  [pc |-> "idle", n |-> 0, inst |-> 0, user |-> "cust", address_id |-> 0,
   itemsIsArray |-> FALSE, items |-> <<>>, idx |-> 0, totalPrice |-> 0,
   orderItems |-> <<>>, order_id |-> 0, error |-> NoError,
   response |-> NoResponse, began |-> FALSE, faulted |-> FALSE,
   timedOut |-> FALSE,
   stockAtArrival |-> [p \in ProductIds |-> 0]]

\* The catalogue before the run: product 1 at 100.00 with 10% discount and
\* stock 5, product 2 at 0.33 with 10% discount and stock 3.
\* The owner field of a customer_addresses row that was deleted.
Deleted == "deleted"

NoAddrReq ==
  [pc |-> "idle", kind |-> "", inst |-> 0, user |-> "", id |-> 0, city |-> "",
   code |-> 0, ops |-> 0]

InitialProducts ==
  [p \in ProductIds |->
     IF p = 1 THEN Product(10000, 10, 5)
     ELSE IF p = 2 THEN Product(33, 10, 3)
     ELSE NoProduct]

Init ==
  /\ rowLock \in BOOLEAN
  /\ products = InitialProducts
  /\ addresses = [a \in AddressIds |-> IF a = 1 THEN "cust" ELSE "other"]
  /\ orders = {}
  /\ order_items = {}
  /\ nextOrderId = 1
  /\ nextItemId = 1
  /\ req = [r \in Requests |-> IdleReq]
  /\ received = 0
  /\ tx = [r \in Requests |-> NoTx]
  /\ lock = [p \in ProductIds |-> 0]
  /\ pool = [i \in Instances |-> PoolMax]
  /\ faults = 0
  /\ adminOps = 0
  /\ applied = [r \in Requests |-> [p \in ProductIds |-> 0]]
  /\ now = 0
  /\ statusLog = {}
  /\ statusResp = NoStatusResp
  /\ reader = NoReader
  /\ addressCity = [a \in AddressIds |-> "Cairo"]
  /\ addrReq = NoAddrReq

\* ---------------------------------------------------------- store helpers
\* What transaction r reads for products row p: its own write, else the
\* committed row (READ COMMITTED).
VisibleStockCommitted(r, p) == products[p].stock_quantity

VisibleStock(r, p) ==
  IF p \in DOMAIN tx[r].stock THEN tx[r].stock[p] ELSE products[p].stock_quantity

RowExists(p) == p \in ProductIds /\ products[p].exists

\* A statement of r that needs the row lock of p can run.
LockFree(r, p) == lock[p] \in {0, r}

ReleaseLocks(r) == [p \in ProductIds |-> IF lock[p] = r THEN 0 ELSE lock[p]]

\* SELECT * FROM customer_addresses WHERE id = $1 AND user_id = $2
AddressRowsAnyOwner(address_id, userId) ==
  {a \in AddressIds : a = address_id}

AddressRows(address_id, userId) ==
  {a \in AddressIds : a = address_id /\ addresses[a] = userId}

\* The status the outer catch answers a thrown error with.
ErrorStatus(err) == 500

ErrorResponse(err) == Response(ErrorStatus(err), "Server error", err)

\* --------------------------------------------------- POST /orders handler
\* The synchronous code at the head of the item loop, up to the next await:
\* the item check, or the end of the loop.
LoopHead(rq, i) ==
  IF i > Len(rq.items)
    THEN [rq EXCEPT !.pc = "insertOrder", !.idx = i]
  ELSE IF InvalidItem(rq.items[i])
    THEN [rq EXCEPT !.pc = "rollback", !.idx = i, !.error = ItemValidationError]
  ELSE [rq EXCEPT !.pc = "select", !.idx = i]

\* The handler answers and ends.  After the request timeout has answered,
\* res.json throws (the headers are sent) and the caller keeps the 408.
Finish(rq, resp) ==
  [rq EXCEPT !.pc = "done", !.response = IF rq.timedOut THEN @ ELSE resp]

InFlight == {r \in Requests : req[r].pc \notin {"idle", "done"}}

\* The request arrives at instance i and takes the first free slot r; the
\* required-field check.  (With nothing else in flight the instance does not
\* matter, and it is instance 1.)
Receive(r, i, u, a, isArr, its) ==
  /\ received < MaxRequests
  /\ r \notin InFlight
  /\ \A r0 \in Requests : r0 < r => r0 \in InFlight
  /\ InFlight = {} => i = 1
  /\ isArr \/ its = <<>>
  /\ received' = received + 1
  /\ applied' = [applied EXCEPT ![r] = [p \in ProductIds |-> 0]]
  /\ LET rq == [IdleReq EXCEPT !.n = received + 1, !.inst = i, !.user = u,
                               !.address_id = a, !.itemsIsArray = isArr,
                               !.items = its,
                               !.stockAtArrival =
                                  [p \in ProductIds |-> products[p].stock_quantity]]
     IN req' = [req EXCEPT ![r] =
          IF a = 0 \/ ~isArr \/ Len(its) = 0
            THEN Finish(rq, Response(400, "Validation error", RequiredFieldsError))
            ELSE [rq EXCEPT !.pc = "address"]]
  /\ UNCHANGED << sideVars, rowLock, products, addresses, orders, order_items,
                  nextOrderId, nextItemId, tx, lock, pool, faults, adminOps >>

\* pool.query(SELECT ... customer_addresses ...): the ownership check.
AddressCheck(r) ==
  /\ req[r].pc = "address"
  /\ pool[req[r].inst] > 0
  /\ req' = [req EXCEPT ![r] =
       IF AddressRows(req[r].address_id, req[r].user) = {}
         THEN Finish(req[r], Response(404, "Address not found", AddressNotFound))
         ELSE [req[r] EXCEPT !.pc = "connect"]]
  /\ UNCHANGED << sideVars, received, rowLock, products, addresses, orders, order_items, nextOrderId,
                  nextItemId, tx, lock, pool, faults, adminOps, applied >>

\* const client = await pool.connect()
Connect(r) ==
  /\ req[r].pc = "connect"
  /\ pool[req[r].inst] > 0
  /\ pool' = [pool EXCEPT ![req[r].inst] = @ - 1]
  /\ req' = [req EXCEPT ![r].pc = "begin"]
  /\ UNCHANGED << sideVars, received, rowLock, products, addresses, orders, order_items, nextOrderId,
                  nextItemId, tx, lock, faults, adminOps, applied >>

\* await client.query('BEGIN'), then the head of the loop for the first item.
Begin(r) ==
  /\ req[r].pc = "begin"
  /\ tx' = [tx EXCEPT ![r] = [NoTx EXCEPT !.active = TRUE]]
  /\ req' = [req EXCEPT ![r] = LoopHead([req[r] EXCEPT !.began = TRUE], 1)]
  /\ UNCHANGED << sideVars, received, rowLock, products, addresses, orders, order_items, nextOrderId,
                  nextItemId, lock, pool, faults, adminOps, applied >>

\* The product read, the missing-product and stock checks, the price
\* computation and orderItems.push.
Select(r) ==
  /\ req[r].pc = "select"
  /\ LET item == req[r].items[req[r].idx]
         p == item.product_id
         q == item.quantity
     IN IF ~RowExists(p)
          THEN /\ req' = [req EXCEPT ![r] =
                    [req[r] EXCEPT !.pc = "rollback", !.error = ProductNotFound(p)]]
               /\ lock' = lock
          ELSE /\ rowLock => LockFree(r, p)
               /\ lock' = IF rowLock THEN [lock EXCEPT ![p] = r] ELSE lock
               /\ LET stock == VisibleStock(r, p)
                      price == UnitPrice(products[p].price, products[p].discount)
                      subtotal == Subtotal(price, q)
                  IN req' = [req EXCEPT ![r] =
                       IF StockInsufficient(stock, q)
                         THEN [req[r] EXCEPT !.pc = "rollback",
                                             !.error = InsufficientStock(p, stock, q)]
                         ELSE [req[r] EXCEPT
                                 !.pc = "update",
                                 !.totalPrice = @ + subtotal,
                                 !.orderItems = Append(@,
                                    [product_id |-> p, quantity |-> q,
                                     price |-> price, subtotal |-> subtotal])]]
  /\ UNCHANGED << sideVars, received, rowLock, products, addresses, orders, order_items, nextOrderId,
                  nextItemId, tx, pool, faults, adminOps, applied >>

UpdateTakesOneUnit(r) ==
  /\ req[r].pc = "update"
  /\ LET item == req[r].items[req[r].idx]
         p == item.product_id
         q == item.quantity
     IN IF q.k # "int"
          THEN /\ req' = [req EXCEPT ![r] =
                    [req[r] EXCEPT !.pc = "rollback", !.error = InvalidIntegerError(q)]]
               /\ UNCHANGED << tx, lock >>
          ELSE /\ LockFree(r, p)
               /\ tx' = [tx EXCEPT ![r].stock =
                    [x \in DOMAIN tx[r].stock \cup {p} |->
                       IF x = p THEN VisibleStock(r, p) - 1 ELSE tx[r].stock[x]]]
               /\ lock' = [lock EXCEPT ![p] = r]
               /\ req' = [req EXCEPT ![r] = LoopHead(req[r], req[r].idx + 1)]
  /\ UNCHANGED << sideVars, received, rowLock, products, addresses, orders, order_items, nextOrderId,
                  nextItemId, pool, faults, adminOps, applied >>

\* UPDATE products SET stock_quantity = stock_quantity - $1 WHERE id = $2,
\* then the head of the loop for the next item.  The store rejects a
\* parameter that is no integer before it touches the row.
Update(r) ==
  /\ req[r].pc = "update"
  /\ LET item == req[r].items[req[r].idx]
         p == item.product_id
         q == item.quantity
     IN IF q.k # "int"
          THEN /\ req' = [req EXCEPT ![r] =
                    [req[r] EXCEPT !.pc = "rollback", !.error = InvalidIntegerError(q)]]
               /\ UNCHANGED << tx, lock >>
          ELSE /\ LockFree(r, p)
               /\ tx' = [tx EXCEPT ![r].stock =
                    [x \in DOMAIN tx[r].stock \cup {p} |->
                       IF x = p THEN VisibleStock(r, p) - q.v ELSE tx[r].stock[x]]]
               /\ lock' = [lock EXCEPT ![p] = r]
               /\ req' = [req EXCEPT ![r] = LoopHead(req[r], req[r].idx + 1)]
  /\ UNCHANGED << sideVars, received, rowLock, products, addresses, orders, order_items, nextOrderId,
                  nextItemId, pool, faults, adminOps, applied >>

InsertOrderAsPaid(r) ==
  /\ req[r].pc = "insertOrder"
  /\ tx' = [tx EXCEPT ![r].order =
       << [id |-> nextOrderId, user_id |-> req[r].user,
           address_id |-> req[r].address_id,
           total_price |-> Round2(req[r].totalPrice),
           status |-> "pending", payment_status |-> "paid",
           updated_at |-> now, req |-> req[r].n] >>]
  /\ nextOrderId' = nextOrderId + 1
  /\ req' = [req EXCEPT ![r] =
       [req[r] EXCEPT !.pc = "insertItems", !.idx = 1, !.order_id = nextOrderId]]
  /\ UNCHANGED << sideVars, received, rowLock, products, addresses, orders, order_items,
                  nextItemId, lock, pool, faults, adminOps, applied >>

\* INSERT INTO orders (...) VALUES ($1, $2, $3, 'pending', 'unpaid') RETURNING *
\* The insert is rejected when its address_id references no row of
\* customer_addresses (address_id INTEGER REFERENCES customer_addresses(id));
\* the SERIAL value it drew is spent.
InsertOrder(r) ==
  /\ req[r].pc = "insertOrder"
  /\ IF addresses[req[r].address_id] = Deleted
       THEN /\ req' = [req EXCEPT ![r] =
                 [req[r] EXCEPT !.pc = "rollback", !.error = ForeignKeyViolation]]
            /\ tx' = tx
       ELSE /\ tx' = [tx EXCEPT ![r].order =
                 << [id |-> nextOrderId, user_id |-> req[r].user,
                     address_id |-> req[r].address_id,
                     total_price |-> Round2(req[r].totalPrice),
                     status |-> "pending", payment_status |-> "unpaid",
                     updated_at |-> now, req |-> req[r].n] >>]
            /\ req' = [req EXCEPT ![r] =
                 [req[r] EXCEPT !.pc = "insertItems", !.idx = 1,
                                !.order_id = nextOrderId]]
  /\ nextOrderId' = nextOrderId + 1
  /\ UNCHANGED << sideVars, received, rowLock, products, addresses, orders, order_items,
                  nextItemId, lock, pool, faults, adminOps, applied >>

InsertItemFirstOnly(r) ==
  /\ req[r].pc = "insertItems"
  /\ LET item == req[r].orderItems[req[r].idx]
     IN tx' = [tx EXCEPT ![r].items = Append(@,
          [id |-> nextItemId, order_id |-> req[r].order_id,
           product_id |-> item.product_id, quantity |-> item.quantity.v,
           price |-> Round2(item.price), subtotal |-> Round2(item.subtotal),
           req |-> req[r].n])]
  /\ nextItemId' = nextItemId + 1
  /\ req' = [req EXCEPT ![r] = [req[r] EXCEPT !.pc = "commit"]]
  /\ UNCHANGED << sideVars, received, rowLock, products, addresses, orders, order_items,
                  nextOrderId, lock, pool, faults, adminOps, applied >>

\* INSERT INTO order_items (...) for the next entry of orderItems.
InsertItem(r) ==
  /\ req[r].pc = "insertItems"
  /\ LET item == req[r].orderItems[req[r].idx]
     IN tx' = [tx EXCEPT ![r].items = Append(@,
          [id |-> nextItemId, order_id |-> req[r].order_id,
           product_id |-> item.product_id, quantity |-> item.quantity.v,
           price |-> Round2(item.price), subtotal |-> Round2(item.subtotal),
           req |-> req[r].n])]
  /\ nextItemId' = nextItemId + 1
  /\ req' = [req EXCEPT ![r] =
       IF req[r].idx = Len(req[r].orderItems)
         THEN [req[r] EXCEPT !.pc = "commit"]
         ELSE [req[r] EXCEPT !.idx = @ + 1]]
  /\ UNCHANGED << sideVars, received, rowLock, products, addresses, orders, order_items,
                  nextOrderId, lock, pool, faults, adminOps, applied >>

DiscardWritesKeepsStock(r) ==
  /\ products' = [p \in ProductIds |->
       IF p \in DOMAIN tx[r].stock
         THEN [products[p] EXCEPT !.stock_quantity = tx[r].stock[p]]
         ELSE products[p]]
  /\ applied' = [applied EXCEPT ![r] = [p \in ProductIds |->
       IF p \in DOMAIN tx[r].stock
         THEN applied[r][p] + products[p].stock_quantity - tx[r].stock[p]
         ELSE applied[r][p]]]
  /\ tx' = [tx EXCEPT ![r] = NoTx]
  /\ lock' = ReleaseLocks(r)
  /\ UNCHANGED << orders, order_items >>

\* The end of r's transaction that keeps none of its writes.
DiscardWrites(r) ==
  /\ tx' = [tx EXCEPT ![r] = NoTx]
  /\ lock' = ReleaseLocks(r)
  /\ UNCHANGED << products, orders, order_items, applied >>

\* The end of r's transaction that makes all of its writes visible.
ApplyWrites(r) ==
  /\ products' = [p \in ProductIds |->
       IF p \in DOMAIN tx[r].stock
         THEN [products[p] EXCEPT !.stock_quantity = tx[r].stock[p]]
         ELSE products[p]]
  /\ applied' = [applied EXCEPT ![r] = [p \in ProductIds |->
       IF p \in DOMAIN tx[r].stock
         THEN applied[r][p] + products[p].stock_quantity - tx[r].stock[p]
         ELSE applied[r][p]]]
  /\ orders' = orders \cup {tx[r].order[n] : n \in 1..Len(tx[r].order)}
  /\ order_items' = order_items \cup {tx[r].items[n] : n \in 1..Len(tx[r].items)}
  /\ tx' = [tx EXCEPT ![r] = NoTx]
  /\ lock' = ReleaseLocks(r)

\* await client.query('COMMIT'); res.status(201).json(...); client.release()
Commit(r) ==
  /\ req[r].pc = "commit"
  /\ ApplyWrites(r)
  /\ pool' = [pool EXCEPT ![req[r].inst] = @ + 1]
  /\ req' = [req EXCEPT ![r] = Finish(req[r], Response(201, "", OrderCreated))]
  /\ UNCHANGED << sideVars, received, rowLock, addresses, nextOrderId, nextItemId, faults, adminOps >>

\* catch: await client.query('ROLLBACK'); throw error; finally:
\* client.release(); outer catch: res.status(500).json(...)
Rollback(r) ==
  /\ req[r].pc = "rollback"
  /\ DiscardWrites(r)
  /\ pool' = [pool EXCEPT ![req[r].inst] = @ + 1]
  /\ req' = [req EXCEPT ![r] = Finish(req[r], ErrorResponse(req[r].error))]
  /\ UNCHANGED << sideVars, received, rowLock, addresses, nextOrderId, nextItemId, faults, adminOps >>

\* ------------------------------------------------------------ store failures
TxStatementPcs == {"begin", "select", "update", "insertOrder", "insertItems", "commit"}

\* A statement awaited inside the try block (BEGIN ... COMMIT) is rejected by
\* the store: control passes to the catch block.  The store keeps none of the
\* statement's effect; a rejected COMMIT ends the transaction rolled back.
StatementFails(r) ==
  /\ req[r].pc \in TxStatementPcs
  /\ faults < MaxFaults
  /\ faults' = faults + 1
  /\ req' = [req EXCEPT ![r] =
       [req[r] EXCEPT !.pc = "rollback", !.error = StoreError, !.faulted = TRUE,
                      !.began = TRUE]]
  /\ UNCHANGED << sideVars, received, rowLock, products, addresses, orders, order_items, nextOrderId,
                  nextItemId, tx, lock, pool, adminOps, applied >>

\* A failed ROLLBACK after which the client stays checked out.
RollbackFailsKeepsClient(r) ==
  /\ req[r].pc = "rollback"
  /\ faults < MaxFaults
  /\ faults' = faults + 1
  /\ DiscardWrites(r)
  /\ req' = [req EXCEPT ![r] =
       Finish([req[r] EXCEPT !.faulted = TRUE], ErrorResponse(StoreError))]
  /\ UNCHANGED << sideVars, received, rowLock, addresses, nextOrderId, nextItemId,
                  adminOps, pool >>

\* The ROLLBACK of the catch block is itself rejected: its error replaces the
\* one being handled, finally releases the client, the outer catch answers.
\* The store ends the transaction of the broken session without its writes.
RollbackFails(r) ==
  /\ req[r].pc = "rollback"
  /\ faults < MaxFaults
  /\ faults' = faults + 1
  /\ DiscardWrites(r)
  /\ pool' = [pool EXCEPT ![req[r].inst] = @ + 1]
  /\ req' = [req EXCEPT ![r] =
       Finish([req[r] EXCEPT !.faulted = TRUE], ErrorResponse(StoreError))]
  /\ UNCHANGED << sideVars, received, rowLock, addresses, nextOrderId, nextItemId, adminOps >>

\* pool.query of the address check, or pool.connect, rejects: no client is
\* held and the outer catch answers.
PoolCallFails(r) ==
  /\ req[r].pc \in {"address", "connect"}
  /\ faults < MaxFaults \/ pool[req[r].inst] = 0
  /\ faults' = IF pool[req[r].inst] = 0 THEN faults ELSE faults + 1
  /\ req' = [req EXCEPT ![r] =
       Finish([req[r] EXCEPT !.faulted = TRUE], ErrorResponse(StoreError))]
  /\ UNCHANGED << sideVars, received, rowLock, products, addresses, orders, order_items, nextOrderId,
                  nextItemId, tx, lock, pool, adminOps, applied >>

\* index.js: req.setTimeout(25000, ...) answers 408 while the handler of the
\* request goes on.
RequestTimesOut(r) ==
  /\ r \in InFlight
  /\ ~req[r].timedOut
  /\ req' = [req EXCEPT ![r] =
       [req[r] EXCEPT !.timedOut = TRUE,
                      !.response = Response(408, "Request timeout", RequestTimeout)]]
  /\ UNCHANGED << sideVars, received, rowLock, products, addresses, orders, order_items,
                  nextOrderId, nextItemId, tx, lock, pool, faults, adminOps, applied >>

\* query_timeout: the client rejects the awaited statement with 'Query read
\* timeout' while the statement stays with the store; the ROLLBACK of the
\* catch block is queued behind it and discards the writes of any statement
\* but a COMMIT.  A COMMIT that timed out at the client has either been
\* executed by the store, and the ROLLBACK that follows finds no
\* transaction, or it has not, and the transaction ends without its writes.
QueryTimesOut(r) ==
  /\ req[r].pc \in TxStatementPcs
  /\ faults < MaxFaults
  /\ faults' = faults + 1
  /\ IF req[r].pc = "commit"
       THEN /\ ApplyWrites(r) \/ DiscardWrites(r)
            /\ pool' = [pool EXCEPT ![req[r].inst] = @ + 1]
            /\ req' = [req EXCEPT ![r] =
                 Finish([req[r] EXCEPT !.faulted = TRUE, !.error = QueryReadTimeout],
                        ErrorResponse(QueryReadTimeout))]
       ELSE /\ req' = [req EXCEPT ![r] =
                 [req[r] EXCEPT !.pc = "rollback", !.error = QueryReadTimeout,
                                !.faulted = TRUE, !.began = TRUE]]
            /\ UNCHANGED << products, orders, order_items, tx, lock, pool, applied >>
  /\ UNCHANGED << sideVars, received, rowLock, addresses, nextOrderId, nextItemId,
                  adminOps >>

\* The row lock the next statement of r waits for, if any.
WaitsFor(r, p) ==
  /\ lock[p] \notin {0, r}
  /\ \/ /\ req[r].pc = "update"
        /\ req[r].items[req[r].idx].product_id = p
        /\ req[r].items[req[r].idx].quantity.k = "int"
     \/ /\ req[r].pc = "select"
        /\ rowLock
        /\ req[r].items[req[r].idx].product_id = p

\* A store that leaves transactions waiting in a cycle.
DeadlockUndetected(r) ==
  /\ FALSE
  /\ UNCHANGED vars

\* The store's deadlock detector aborts the statement of a transaction that
\* waits in a cycle.
DeadlockDetected(r) ==
  /\ \E p, p2 \in ProductIds : \E r2 \in Requests \ {r} :
       /\ WaitsFor(r, p) /\ lock[p] = r2
       /\ WaitsFor(r2, p2) /\ lock[p2] = r
  /\ req' = [req EXCEPT ![r] =
       [req[r] EXCEPT !.pc = "rollback", !.error = StoreError, !.faulted = TRUE]]
  /\ UNCHANGED << sideVars, received, rowLock, products, addresses, orders, order_items, nextOrderId,
                  nextItemId, tx, lock, pool, faults, adminOps, applied >>

\* -------------------------------------------------------- admin product writes
\* A multipart form value: the decimal text of v, or text that is no number.
Num(n) == [num |-> TRUE, v |-> n]
Text == [num |-> FALSE, v |-> 0]

\* parseFloat(value) || 0
ParseFloatOrZero(f) == IF f.num THEN f.v ELSE 0

UpdateForms ==
  { [price |-> Num(20000)],
    [discount |-> Num(0), stock_quantity |-> Num(7)],
    [stock_quantity |-> Num(-1)],
    [stock_quantity |-> Text] }

CreateForms ==
  { [price |-> Num(33), stock_quantity |-> Num(2)],
    [price |-> Num(10000), discount |-> Num(10), stock_quantity |-> Num(-1)] }

\* parseInt(field || 0) of a form field that holds a number or is absent
ParseIntOrDefault(f, field) == IF field \in DOMAIN f THEN f[field].v ELSE 0

FreeProductIds == {p \in ProductIds : ~products[p].exists}

AnyPoolIdle == \E i \in Instances : pool[i] > 0

\* POST /products with the required fields: INSERT INTO products (...) with
\* parseFloat(price), parseInt(discount || 0), parseInt(stock_quantity || 0).
\* The new row takes the next id of the sequence.
AdminCreateProduct(f) ==
  /\ adminOps < MaxAdminOps
  /\ AnyPoolIdle
  /\ FreeProductIds # {}
  /\ "price" \in DOMAIN f /\ \A field \in DOMAIN f : f[field].num
  /\ LET p == CHOOSE x \in FreeProductIds : \A y \in FreeProductIds : x <= y
     IN products' = [products EXCEPT ![p] =
          Product(f.price.v, ParseIntOrDefault(f, "discount"),
                  ParseIntOrDefault(f, "stock_quantity"))]
  /\ adminOps' = adminOps + 1
  /\ UNCHANGED << sideVars, received, rowLock, addresses, orders, order_items, nextOrderId,
                  nextItemId, req, tx, lock, pool, faults, applied >>

\* The row of p after UPDATE products SET <provided fields> WHERE id = p.
UpdatedProduct(row, f) ==
  [row EXCEPT
     !.price = IF "price" \in DOMAIN f THEN ParseFloatOrZero(f.price) ELSE @,
     !.discount = IF "discount" \in DOMAIN f THEN ParseFloatOrZero(f.discount) ELSE @,
     !.stock_quantity = IF "stock_quantity" \in DOMAIN f
                          THEN ParseFloatOrZero(f.stock_quantity) ELSE @]

AdminUpdateProductRepricesItems(p, f) ==
  /\ adminOps < MaxAdminOps
  /\ AnyPoolIdle
  /\ products[p].exists
  /\ lock[p] = 0
  /\ products' = [products EXCEPT ![p] = UpdatedProduct(products[p], f)]
  /\ order_items' =
       { IF it.product_id = p
           THEN [it EXCEPT !.price = products'[p].price,
                           !.subtotal = products'[p].price * it.quantity]
           ELSE it : it \in order_items }
  /\ adminOps' = adminOps + 1
  /\ UNCHANGED << sideVars, received, rowLock, addresses, orders, nextOrderId,
                  nextItemId, req, tx, lock, pool, faults, applied >>

\* PUT /products/:id on an existing product.  The UPDATE waits for the row lock.
AdminUpdateProduct(p, f) ==
  /\ adminOps < MaxAdminOps
  /\ AnyPoolIdle
  /\ products[p].exists
  /\ lock[p] = 0
  /\ products' = [products EXCEPT ![p] = UpdatedProduct(products[p], f)]
  /\ adminOps' = adminOps + 1
  /\ UNCHANGED << sideVars, received, rowLock, addresses, orders, order_items, nextOrderId,
                  nextItemId, req, tx, lock, pool, faults, applied >>

\* ------------------------------------------------- PUT /orders/:id/status
\* requireAdmin: req.user.role !== 'admin' is answered 403.  The users of the
\* model are named after their roles; "admin" is the one admin.
RequireAdminAnyRole(u) == TRUE

RequireAdmin(u) == u = "admin"

OrderRows(id) == {o \in orders : o.id = id}

\* The fields the UPDATE sets: routes/orders.js sets every field that is not
\* undefined, the revision every field that is truthy.
FieldSet(x) == IF rowLock THEN Truthy(x) ELSE x # JsUndefined

UpdatedOrderResetsPayment(o, body, t) ==
  [o EXCEPT
     !.status = IF FieldSet(body.status) THEN SqlText(body.status) ELSE @,
     !.payment_status =
        IF FieldSet(body.payment_status) THEN SqlText(body.payment_status)
        ELSE "unpaid",
     !.updated_at = t]

\* UPDATE orders SET <fields>, updated_at = <now> WHERE id = $n
UpdatedOrder(o, body, t) ==
  [o EXCEPT
     !.status = IF FieldSet(body.status) THEN SqlText(body.status) ELSE @,
     !.payment_status =
        IF FieldSet(body.payment_status) THEN SqlText(body.payment_status) ELSE @,
     !.updated_at = t]

StatusAnswerMissingIsInvalid(id, body) ==
  IF Truthy(body.status) /\ ~Includes(validStatuses, body.status)
    THEN << 400, "Validation error" >>
  ELSE IF Truthy(body.payment_status)
          /\ ~Includes(validPaymentStatuses, body.payment_status)
    THEN << 400, "Validation error" >>
  ELSE IF ~FieldSet(body.status) /\ ~FieldSet(body.payment_status)
    THEN << 400, "Validation error" >>
  ELSE IF OrderRows(id) = {}
    THEN << 400, "Validation error" >>
  ELSE << 200, "" >>

StatusAnswerTerminalStates(id, body) ==
  IF Truthy(body.status) /\ ~Includes(validStatuses, body.status)
    THEN << 400, "Validation error" >>
  ELSE IF Truthy(body.payment_status)
          /\ ~Includes(validPaymentStatuses, body.payment_status)
    THEN << 400, "Validation error" >>
  ELSE IF ~rowLock /\ OrderRows(id) = {}
    THEN << 404, "Order not found" >>
  ELSE IF ~FieldSet(body.status) /\ ~FieldSet(body.payment_status)
    THEN << 400, "Validation error" >>
  ELSE IF OrderRows(id) = {}
    THEN << 404, "Order not found" >>
  ELSE IF \E o \in OrderRows(id) : o.status \in {"delivered", "cancelled"}
    THEN << 400, "Validation error" >>
  ELSE << 200, "" >>

\* The answer of the handler, in the order of its checks: the two enum
\* checks; then, in routes/orders.js, the SELECT of the order (404) before
\* the at-least-one-field check (400), and in the revision the
\* at-least-one-field check before the UPDATE whose empty result is a 404.
StatusAnswer(id, body) ==
  IF Truthy(body.status) /\ ~Includes(validStatuses, body.status)
    THEN << 400, "Validation error" >>
  ELSE IF Truthy(body.payment_status)
          /\ ~Includes(validPaymentStatuses, body.payment_status)
    THEN << 400, "Validation error" >>
  ELSE IF ~rowLock /\ OrderRows(id) = {}
    THEN << 404, "Order not found" >>
  ELSE IF ~FieldSet(body.status) /\ ~FieldSet(body.payment_status)
    THEN << 400, "Validation error" >>
  ELSE IF OrderRows(id) = {}
    THEN << 404, "Order not found" >>
  ELSE << 200, "" >>

\* A status-update request of user u for order id with the given body, from
\* the middleware to the answer.  No route deletes an orders row, so the row
\* the handler of routes/orders.js selected is the row its UPDATE finds.
\* A status update that hands the ordered quantities back when it cancels.
StatusUpdateRestocks(u, id, body) ==
  /\ now < MaxStatusOps
  /\ AnyPoolIdle
  /\ now' = now + 1
  /\ statusResp' = StatusResponse(u, id, body, 200, "")
  /\ products' = [p \in ProductIds |->
                    IF body.status = JsString("cancelled") /\ products[p].exists
                      THEN [products[p] EXCEPT !.stock_quantity = @ + 1]
                      ELSE products[p]]
  /\ UNCHANGED << rowLock, addresses, orders, statusLog, order_items,
                  nextOrderId, nextItemId, req, received, tx, lock, pool,
                  faults, adminOps, applied, reader, addressVars >>

StatusUpdate(u, id, body) ==
  /\ now < MaxStatusOps
  /\ AnyPoolIdle
  /\ now' = now + 1
  /\ IF ~RequireAdmin(u)
       THEN /\ statusResp' = StatusResponse(u, id, body, 403, "Access denied")
            /\ UNCHANGED << orders, statusLog >>
       ELSE LET ans == StatusAnswer(id, body)
            IN /\ statusResp' =
                    [StatusResponse(u, id, body, ans[1], ans[2]) EXCEPT !.was =
                       IF ans[1] = 200
                         THEN LET o == CHOOSE x \in OrderRows(id) : TRUE
                              IN << o.status, o.payment_status >>
                         ELSE << >>]
               /\ IF ans[1] = 200
                    THEN /\ orders' = {IF o.id = id THEN UpdatedOrder(o, body, now')
                                       ELSE o : o \in orders}
                         /\ statusLog' = statusLog \cup {<< id, u >>}
                    ELSE UNCHANGED << orders, statusLog >>
  /\ UNCHANGED << rowLock, products, addresses, order_items, nextOrderId,
                  nextItemId, req, received, tx, lock, pool, faults, adminOps,
                  applied, reader, addressVars >>

\* A pool.query of the handler rejects: the catch block answers 500.
StatusUpdateFails(u, id, body) ==
  /\ now < MaxStatusOps
  /\ faults < MaxFaults
  /\ RequireAdmin(u)
  /\ StatusAnswer(id, body)[1] \in {200, 404}
  /\ now' = now + 1
  /\ faults' = faults + 1
  /\ statusResp' = StatusResponse(u, id, body, 500, "Server error")
  /\ UNCHANGED << rowLock, products, addresses, orders, order_items, nextOrderId,
                  nextItemId, req, received, tx, lock, pool, adminOps, applied,
                  statusLog, reader, addressVars >>

\* ---------------------------------------- PUT and DELETE /orders/addresses/:id
AddressFrame ==
  UNCHANGED << statusVars, reader, rowLock, products, orders, order_items,
               nextOrderId, nextItemId, req, received, tx, lock, pool, faults,
               adminOps, applied >>

\* A request of user u on instance i to set the city of address a, or to
\* delete it.  The revision's delete is one statement without a check.
StartAddressRequest(kind, i, u, a, city) ==
  /\ addrReq.pc \in {"idle", "done"}
  /\ addrReq.ops < MaxAddressOps
  /\ addrReq' = [pc |-> IF rowLock /\ kind = "delete" THEN "write" ELSE "check",
                 kind |-> kind, inst |-> i, user |-> u, id |-> a, city |-> city,
                 code |-> 0, ops |-> addrReq.ops + 1]
  /\ UNCHANGED << addresses, addressCity >>
  /\ AddressFrame

\* SELECT * FROM customer_addresses WHERE id = $1 AND user_id = $2
AddressOwnerCheck ==
  /\ addrReq.pc = "check"
  /\ pool[addrReq.inst] > 0
  /\ addrReq' = IF AddressRows(addrReq.id, addrReq.user) = {}
                  THEN [addrReq EXCEPT !.pc = "done", !.code = 404]
                  ELSE [addrReq EXCEPT !.pc = "write"]
  /\ UNCHANGED << addresses, addressCity >>
  /\ AddressFrame

\* UPDATE customer_addresses SET city = $1 WHERE id = $2 AND user_id = $3
AddressUpdate ==
  /\ addrReq.pc = "write" /\ addrReq.kind = "update"
  /\ pool[addrReq.inst] > 0
  /\ addressCity' = IF AddressRows(addrReq.id, addrReq.user) = {} THEN addressCity
                    ELSE [addressCity EXCEPT ![addrReq.id] = addrReq.city]
  /\ addrReq' = [addrReq EXCEPT !.pc = "done", !.code = 200]
  /\ UNCHANGED addresses
  /\ AddressFrame

\* An open transaction has inserted an order that references address a: its
\* foreign-key check holds a lock on the row until the transaction ends.
ReferencedInFlight(a) ==
  \E r \in Requests : tx[r].order # << >> /\ tx[r].order[1].address_id = a

\* A delete that the store accepts whatever references the row.
AddressDeleteUnreferenced ==
  /\ addrReq.pc = "write" /\ addrReq.kind = "delete"
  /\ pool[addrReq.inst] > 0
  /\ addresses' = IF AddressRows(addrReq.id, addrReq.user) = {} THEN addresses
                  ELSE [addresses EXCEPT ![addrReq.id] = Deleted]
  /\ addrReq' = [addrReq EXCEPT !.pc = "done", !.code = 200]
  /\ UNCHANGED addressCity
  /\ AddressFrame

\* DELETE FROM customer_addresses WHERE id = $1 AND user_id = $2 [RETURNING *].
\* The store rejects the delete of a row that a committed order references,
\* and makes it wait for a transaction that has inserted such an order.
AddressDelete ==
  /\ addrReq.pc = "write" /\ addrReq.kind = "delete"
  /\ pool[addrReq.inst] > 0
  /\ ~ReferencedInFlight(addrReq.id)
  /\ IF AddressRows(addrReq.id, addrReq.user) = {}
       THEN /\ addrReq' = [addrReq EXCEPT !.pc = "done",
                                          !.code = IF rowLock THEN 404 ELSE 200]
            /\ addresses' = addresses
       ELSE IF \E o \in orders : o.address_id = addrReq.id
         THEN /\ addrReq' = [addrReq EXCEPT !.pc = "done", !.code = 500]
              /\ addresses' = addresses
         ELSE /\ addrReq' = [addrReq EXCEPT !.pc = "done", !.code = 200]
              /\ addresses' = [addresses EXCEPT ![addrReq.id] = Deleted]
  /\ UNCHANGED addressCity
  /\ AddressFrame

\* ------------------------------------- GET /orders, /orders/:id, /products/:id
\* Every query of a read handler is a pool.query: it takes the idle client
\* of the instance's pool for the one statement, and sees committed rows.
ReaderCanQuery == pool[reader.inst] > 0

ReaderAnswer(code) == [reader EXCEPT !.pc = "done", !.code = code]

\* A customer reads their own orders, an admin every order.
VisibleOrdersAnyUser(u, kind, id) ==
  {o \in orders : kind = "byId" => o.id = id}

VisibleOrders(u, kind, id) ==
  {o \in orders : (u = "admin" \/ o.user_id = u) /\ (kind = "byId" => o.id = id)}

ReaderFrame ==
  UNCHANGED << statusVars, addressVars, rowLock, products, addresses, orders, order_items,
               nextOrderId, nextItemId, req, received, tx, lock, pool, adminOps,
               applied >>

StartRead(i, u, kind, id) ==
  /\ reader.pc = "idle"
  /\ reader' = [NoReader EXCEPT !.pc = IF kind = "product" THEN "product" ELSE "order",
                                 !.kind = kind, !.inst = i, !.user = u, !.id = id]
  /\ ReaderFrame /\ UNCHANGED faults

\* The first of two GET requests of one caller for the same orders; snap is
\* what was committed when it arrived.
StartFirstRead(i, u, kind, id) ==
  /\ reader.pc = "idle"
  /\ reader' = [NoReader EXCEPT !.pc = "order", !.kind = kind, !.inst = i,
                                 !.user = u, !.id = id,
                                 !.snap = << products, orders, order_items >>]
  /\ ReaderFrame /\ UNCHANGED faults

\* The caller repeats the answered request; prev is the first answer.
StartSecondRead ==
  /\ reader.pc = "done"
  /\ reader.prev = << >>
  /\ reader.snap # << >>
  /\ reader' = [NoReader EXCEPT !.pc = "order", !.kind = reader.kind,
                                 !.inst = reader.inst, !.user = reader.user,
                                 !.id = reader.id, !.snap = reader.snap,
                                 !.prev = << [code |-> reader.code,
                                              rows |-> reader.rows,
                                              items |-> reader.items] >>]
  /\ ReaderFrame /\ UNCHANGED faults

\* SELECT o.* ... FROM orders o ... WHERE o.id = $1 [AND o.user_id = $2], or
\* the page of the list.  routes/orders.js goes on to the items by way of a
\* query of the products columns; the revision counts the list first.
ReadOrders ==
  /\ reader.pc = "order"
  /\ ReaderCanQuery
  /\ LET rows == VisibleOrders(reader.user, reader.kind, reader.id)
     IN reader' =
          IF reader.kind = "byId" /\ rows = {} THEN ReaderAnswer(404)
          ELSE [reader EXCEPT
                  !.rows = rows,
                  !.pc = IF rowLock
                           THEN (IF reader.kind = "list" THEN "count" ELSE "items")
                         ELSE IF rows = {} THEN "count"
                         ELSE "columns"]
  /\ ReaderFrame /\ UNCHANGED faults

\* SELECT column_name FROM information_schema.columns ...
ReadColumns ==
  /\ reader.pc = "columns"
  /\ ReaderCanQuery
  /\ reader' = [reader EXCEPT !.pc = "items"]
  /\ ReaderFrame /\ UNCHANGED faults

\* The position after the items are known.
AfterItems(rd) ==
  IF rd.kind = "list" /\ ~rowLock THEN [rd EXCEPT !.pc = "count"]
  ELSE [rd EXCEPT !.pc = "done", !.code = 200]

\* SELECT oi.* ... FROM order_items oi ... WHERE oi.order_id = $1 (or
\* = ANY($1)), and the same query without the join after a failure.
ReadItems ==
  /\ reader.pc \in {"items", "basic"}
  /\ ReaderCanQuery
  /\ reader' = AfterItems([reader EXCEPT !.items =
       {it \in order_items : \E o \in reader.rows : it.order_id = o.id}])
  /\ ReaderFrame /\ UNCHANGED faults

\* SELECT COUNT(*) FROM orders ...; after it the revision answers an empty
\* page, or reads the items.
ReadCount ==
  /\ reader.pc = "count"
  /\ ReaderCanQuery
  /\ reader' = IF rowLock /\ reader.rows # {}
                 THEN [reader EXCEPT !.pc = "items"]
                 ELSE ReaderAnswer(200)
  /\ ReaderFrame /\ UNCHANGED faults

\* SELECT p.* ... FROM products p ... WHERE p.id = $1
ReadProduct ==
  /\ reader.pc = "product"
  /\ ReaderCanQuery
  /\ reader' =
       IF ~RowExists(reader.id) THEN ReaderAnswer(404)
       ELSE [ReaderAnswer(200) EXCEPT !.stock = products[reader.id].stock_quantity]
  /\ ReaderFrame /\ UNCHANGED faults

\* A query of the read handler rejects: the store fails, or no client of the
\* pool comes free within connectionTimeoutMillis.  routes/orders.js catches
\* a failure of the columns or items query and retries with the basic items
\* query, and catches a failure of that one and answers without items; every
\* other failure is answered 500.
ReaderQueryFails ==
  /\ reader.pc \in {"order", "columns", "items", "basic", "count", "product"}
  /\ faults < MaxFaults \/ pool[reader.inst] = 0
  /\ faults' = IF pool[reader.inst] = 0 THEN faults ELSE faults + 1
  /\ reader' =
       IF ~rowLock /\ reader.pc \in {"columns", "items"}
         THEN [reader EXCEPT !.pc = "basic", !.failed = TRUE]
       ELSE IF ~rowLock /\ reader.pc = "basic"
         THEN AfterItems([reader EXCEPT !.failed = TRUE])
       ELSE [ReaderAnswer(500) EXCEPT !.failed = TRUE]
  /\ ReaderFrame

\* --------------------------------------------------------------- behaviours
\* Requests served one at a time: every body, store failures, admin writes.
Next ==
  \/ \E r \in Requests, c \in Callers, its \in ItemLists :
        InFlight = {} /\ Receive(r, 1, c[1], c[2], TRUE, its)
  \/ \E r \in Requests, c \in Callers :
        InFlight = {} /\ Receive(r, 1, c[1], c[2], FALSE, <<>>)
  \/ \E r \in Requests : AddressCheck(r)
  \/ \E r \in Requests : Connect(r)
  \/ \E r \in Requests : Begin(r)
  \/ \E r \in Requests : Select(r)
  \/ \E r \in Requests : Update(r)
  \/ \E r \in Requests : InsertOrder(r)
  \/ \E r \in Requests : InsertItem(r)
  \/ \E r \in Requests : Commit(r)
  \/ \E r \in Requests : Rollback(r)
  \/ \E r \in Requests : StatementFails(r)
  \/ \E r \in Requests : RollbackFails(r)
  \/ \E r \in Requests : PoolCallFails(r)
  \/ \E f \in CreateForms : AdminCreateProduct(f)
  \/ \E p \in ProductIds, f \in UpdateForms : AdminUpdateProduct(p, f)

Spec == Init /\ [][Next]_vars

\* Requests in flight together, on one instance or two: well-formed bodies
\* and store failures.
NextConc ==
  \/ \E r \in Requests, i \in Instances, c \in ConcCallers, its \in ConcItemLists :
        Receive(r, i, c[1], c[2], TRUE, its)
  \/ \E r \in Requests : AddressCheck(r)
  \/ \E r \in Requests : Connect(r)
  \/ \E r \in Requests : Begin(r)
  \/ \E r \in Requests : Select(r)
  \/ \E r \in Requests : Update(r)
  \/ \E r \in Requests : InsertOrder(r)
  \/ \E r \in Requests : InsertItem(r)
  \/ \E r \in Requests : Commit(r)
  \/ \E r \in Requests : Rollback(r)
  \/ \E r \in Requests : StatementFails(r)
  \/ \E r \in Requests : RollbackFails(r)
  \/ \E r \in Requests : PoolCallFails(r)
  \/ \E r \in Requests : DeadlockDetected(r)

SpecConc == Init /\ [][NextConc]_vars

\* The orders that the status updates act on: <<user, address_id, items>>,
\* each user with an address of their own.
StatusOrders ==
  { << "cust", 1, << Item(1, QInt(2)) >> >>,
    << "other", 2, << Item(2, QInt(1)), Item(1, QInt(3)) >> >> }

\* Orders and status updates of customers and admins, served one at a time.
NextStatus ==
  \/ \E r \in Requests, c \in StatusOrders :
        InFlight = {} /\ Receive(r, 1, c[1], c[2], TRUE, c[3])
  \/ \E r \in Requests : AddressCheck(r)
  \/ \E r \in Requests : Connect(r)
  \/ \E r \in Requests : Begin(r)
  \/ \E r \in Requests : Select(r)
  \/ \E r \in Requests : Update(r)
  \/ \E r \in Requests : InsertOrder(r)
  \/ \E r \in Requests : InsertItem(r)
  \/ \E r \in Requests : Commit(r)
  \/ \E r \in Requests : Rollback(r)
  \/ \E u \in {"cust", "admin"}, id \in StatusOrderIds, body \in StatusBodies :
        InFlight = {} /\ StatusUpdate(u, id, body)
  \/ \E u \in {"cust", "admin"}, id \in StatusOrderIds, body \in StatusBodies :
        InFlight = {} /\ StatusUpdateFails(u, id, body)

SpecStatus == Init /\ [][NextStatus]_vars

\* Bodies of the orders placed while a read request is served.
ReadItemLists ==
  { << Item(1, QInt(2)) >>,
    << Item(2, QInt(1)), Item(1, QInt(3)) >> }

\* Order placements in flight together with one read request.
NextRead ==
  \/ \E r \in Requests, i \in Instances, its \in ReadItemLists :
        Receive(r, i, "cust", 1, TRUE, its)
  \/ \E r \in Requests : AddressCheck(r)
  \/ \E r \in Requests : Connect(r)
  \/ \E r \in Requests : Begin(r)
  \/ \E r \in Requests : Select(r)
  \/ \E r \in Requests : Update(r)
  \/ \E r \in Requests : InsertOrder(r)
  \/ \E r \in Requests : InsertItem(r)
  \/ \E r \in Requests : Commit(r)
  \/ \E r \in Requests : Rollback(r)
  \/ \E r \in Requests : PoolCallFails(r)
  \/ \E u \in {"cust", "admin"}, id \in {1, 2} : StartRead(1, u, "byId", id)
  \/ \E u \in {"cust", "admin"} : StartRead(1, u, "list", 0)
  \/ \E p \in {1, 2} : StartRead(1, "cust", "product", p)
  \/ ReadOrders
  \/ ReadColumns
  \/ ReadItems
  \/ ReadCount
  \/ ReadProduct
  \/ ReaderQueryFails

SpecRead == Init /\ [][NextRead]_vars

\* Orders of two customers placed one at a time on the instance that serves
\* a caller who reads the same orders twice.
NextReread ==
  \/ \E r \in Requests, c \in StatusOrders :
        InFlight = {} /\ Receive(r, 1, c[1], c[2], TRUE, c[3])
  \/ \E r \in Requests : AddressCheck(r)
  \/ \E r \in Requests : Connect(r)
  \/ \E r \in Requests : Begin(r)
  \/ \E r \in Requests : Select(r)
  \/ \E r \in Requests : Update(r)
  \/ \E r \in Requests : InsertOrder(r)
  \/ \E r \in Requests : InsertItem(r)
  \/ \E r \in Requests : Commit(r)
  \/ \E r \in Requests : Rollback(r)
  \/ \E u \in {"cust", "other", "admin"}, id \in {1, 2} :
        StartFirstRead(1, u, "byId", id)
  \/ \E u \in {"cust", "other", "admin"} : StartFirstRead(1, u, "list", 0)
  \/ StartSecondRead
  \/ ReadOrders
  \/ ReadColumns
  \/ ReadItems
  \/ ReadCount
  \/ ReaderQueryFails

SpecReread == Init /\ [][NextReread]_vars

\* Orders of two customers placed one at a time on one instance while the
\* customers update and delete their addresses on the other.
NextAddress ==
  \/ \E r \in Requests, c \in StatusOrders :
        InFlight = {} /\ Receive(r, 1, c[1], c[2], TRUE, c[3])
  \/ \E r \in Requests : AddressCheck(r)
  \/ \E r \in Requests : Connect(r)
  \/ \E r \in Requests : Begin(r)
  \/ \E r \in Requests : Select(r)
  \/ \E r \in Requests : Update(r)
  \/ \E r \in Requests : InsertOrder(r)
  \/ \E r \in Requests : InsertItem(r)
  \/ \E r \in Requests : Commit(r)
  \/ \E r \in Requests : Rollback(r)
  \/ \E kind \in {"update", "delete"}, u \in {"cust", "other"}, a \in AddressIds :
        StartAddressRequest(kind, 2, u, a, "Giza")
  \/ AddressOwnerCheck
  \/ AddressUpdate
  \/ AddressDelete

SpecAddress == Init /\ [][NextAddress]_vars

\* Two orders of one customer that name products 1 and 2 in opposite order;
\* their quantities together are the whole stock of both.
LiveItemLists ==
  { << Item(1, QInt(2)), Item(2, QInt(2)) >>,
    << Item(2, QInt(1)), Item(1, QInt(3)) >> }

\* The two orders in flight together, on one instance or two, with store
\* failures.
NextLive ==
  \/ \E r \in Requests, i \in Instances, its \in LiveItemLists :
        Receive(r, i, "cust", 1, TRUE, its)
  \/ \E r \in Requests : AddressCheck(r)
  \/ \E r \in Requests : Connect(r)
  \/ \E r \in Requests : Begin(r)
  \/ \E r \in Requests : Select(r)
  \/ \E r \in Requests : Update(r)
  \/ \E r \in Requests : InsertOrder(r)
  \/ \E r \in Requests : InsertItem(r)
  \/ \E r \in Requests : Commit(r)
  \/ \E r \in Requests : Rollback(r)
  \/ \E r \in Requests : StatementFails(r)
  \/ \E r \in Requests : RollbackFails(r)
  \/ \E r \in Requests : PoolCallFails(r)
  \/ \E r \in Requests : DeadlockDetected(r)

\* Every awaited call of a handler returns: the store runs a statement that
\* waits for nothing, the pool hands an idle client to a waiting request,
\* and the deadlock detector runs.
Fairness ==
  \A r \in Requests :
    /\ WF_vars(AddressCheck(r))
    /\ WF_vars(Connect(r))
    /\ WF_vars(Begin(r))
    /\ WF_vars(Select(r))
    /\ WF_vars(Update(r))
    /\ WF_vars(InsertOrder(r))
    /\ WF_vars(InsertItem(r))
    /\ WF_vars(Commit(r))
    /\ WF_vars(Rollback(r))
    /\ WF_vars(DeadlockDetected(r))

SpecLive == Init /\ [][NextLive]_vars /\ Fairness

\* Order placements, served one at a time, whose request or statements time
\* out.
NextTimeout ==
  \/ \E r \in Requests, its \in ReadItemLists :
        InFlight = {} /\ Receive(r, 1, "cust", 1, TRUE, its)
  \/ \E r \in Requests : AddressCheck(r)
  \/ \E r \in Requests : Connect(r)
  \/ \E r \in Requests : Begin(r)
  \/ \E r \in Requests : Select(r)
  \/ \E r \in Requests : Update(r)
  \/ \E r \in Requests : InsertOrder(r)
  \/ \E r \in Requests : InsertItem(r)
  \/ \E r \in Requests : Commit(r)
  \/ \E r \in Requests : Rollback(r)
  \/ \E r \in Requests : PoolCallFails(r)
  \/ \E r \in Requests : RequestTimesOut(r)
  \/ \E r \in Requests : QueryTimesOut(r)

SpecTimeout == Init /\ [][NextTimeout]_vars

\* ================================================================== claims
Done(r) == req[r].pc = "done"

Committed == << products, orders, order_items >>

\* Request r has no committed effect: no stock taken off any row, no orders
\* row and no order_items row of its own.
NothingPersisted(r) ==
  /\ \A p \in ProductIds : applied[r][p] = 0
  /\ \A o \in orders : o.req # req[r].n
  /\ \A it \in order_items : it.req # req[r].n

InTransaction(r) == req[r].pc \in TxStatementPcs \cup {"rollback"}

LessThanQuantity(stock, q) ==
  \/ q.k = "int" /\ stock < q.v
  \/ q.k = "frac" /\ stock <= q.v

\* The items list of r names an existing product whose stock, when the
\* request arrived, was less than the requested quantity.
ShortAtArrival(r) ==
  \E k \in 1..Len(req[r].items) :
    LET e == req[r].items[k]
    IN /\ RowExists(e.product_id)
       /\ LessThanQuantity(req[r].stockAtArrival[e.product_id], e.quantity)

RECURSIVE SumQuantity(_)
SumQuantity(rows) ==
  IF rows = {} THEN 0
  ELSE LET x == CHOOSE y \in rows : TRUE
       IN x.quantity + SumQuantity(rows \ {x})

RECURSIVE SumSubtotal(_)
SumSubtotal(rows) ==
  IF rows = {} THEN 0
  ELSE LET x == CHOOSE y \in rows : TRUE
       IN x.subtotal + SumSubtotal(rows \ {x})

\* The stock of product p before any order of the run.
InitialStock(p) == InitialProducts[p].stock_quantity

\* C3: concurrent order placements never oversell.  The quantity of a product
\* in committed orders is at most the stock the product had, so two requests
\* whose combined quantity exceeds the stock do not both commit, and the
\* committed stock is never negative.
C3_NoOversell ==
  \A p \in ProductIds :
    /\ SumQuantity({it \in order_items : it.product_id = p}) <= InitialStock(p)
    /\ products[p].stock_quantity >= 0

\* C4: in every state reached by admin product creations, admin product
\* updates and order placements, every product's stock_quantity is >= 0.
C4_StockNeverNegative ==
  \A p \in ProductIds : products[p].exists => products[p].stock_quantity >= 0

\* C5: for every committed order the stored total_price is the sum of the
\* stored subtotals of its order_items rows, and every stored row has
\* subtotal = price * quantity.
C5_StoredTotalsAgree ==
  /\ \A o \in orders :
       o.total_price = SumSubtotal({it \in order_items : it.order_id = o.id})
  /\ \A it \in order_items : it.subtotal = it.price * it.quantity

\* C6: on every successful order placement, each line's unit price is
\* price * (1 - discount/100) of the product row read inside the transaction
\* (here price * (100 - discount), in hundredths of a cent), its subtotal is
\* that unit price times the quantity and is added to the running total, and
\* the stock update takes exactly the quantity off the row; the committed
\* stock of each product then falls by the quantity ordered of it.
C6_PriceSubtotalAndStock ==
  [][\A r \in Requests :
       LET e == req[r].items[req[r].idx]
           p == e.product_id
           n == e.quantity.v
           unit == products[p].price * (100 - products[p].discount)
       IN /\ (req[r].pc = "select" /\ req'[r].pc = "update" /\ e.quantity.k = "int")
               => /\ req'[r].orderItems = Append(req[r].orderItems,
                       [product_id |-> p, quantity |-> e.quantity,
                        price |-> unit, subtotal |-> unit * n])
                  /\ req'[r].totalPrice = req[r].totalPrice + unit * n
          /\ (req[r].pc = "update" /\ req'[r].pc \in {"select", "insertOrder"})
               => /\ p \in DOMAIN tx'[r].stock
                  /\ tx'[r].stock[p] = VisibleStock(r, p) - n
          /\ (req[r].pc = "commit" /\ req'[r].response.status = 201)
               => \A x \in ProductIds :
                    products'[x].stock_quantity =
                      products[x].stock_quantity
                        - SumQuantity({it \in order_items' :
                                         it.req = req[r].n /\ it.product_id = x})]_vars

\* The example: product 1 with stock 5, price 100.00, discount 10; an order
\* for 2 gives unit price 90, subtotal 180, order total 180.00 and stock 3.
C6_Witness ==
  \E r \in Requests :
    /\ Done(r) /\ req[r].response.status = 201
    /\ req[r].stockAtArrival[1] = 5
    /\ req[r].items = << Item(1, QInt(2)) >>
    /\ req[r].orderItems = << [product_id |-> 1, quantity |-> QInt(2),
                               price |-> 900000, subtotal |-> 1800000] >>
    /\ req[r].totalPrice = 1800000
    /\ \E o \in orders : o.id = req[r].order_id /\ o.total_price = 18000
    /\ products[1].stock_quantity = 3

\* C7: order item prices are snapshots.  An admin update of a product (price,
\* discount or stock) leaves every orders row and every order_items row as
\* it was.
C7_ItemPricesAreSnapshots ==
  [][(adminOps' # adminOps) => (orders' = orders /\ order_items' = order_items)]_vars

\* After an admin update, a committed line still carries the unit price of
\* the time of the order, which is no longer the product's.
C7_Witness ==
  /\ adminOps > 0
  /\ \E it \in order_items :
       /\ it.price = 9000
       /\ it.product_id = 1
       /\ products[1].price = 20000

\* The address of the body is no address owned by the requester.
AddressNotOwned(r) ==
  ~(req[r].address_id \in AddressIds /\ addresses[req[r].address_id] = req[r].user)

C9_FailureStatusMapping ==
  \A r \in Requests :
    Done(r) =>
      LET t == req[r].response.message.type
          st == req[r].response.status
      IN /\ t = "invalid_item" => st = 400
         /\ t = "product_not_found" => st = 404
         /\ t = "insufficient_stock" => st = 400
         /\ st = 500 => t \in {"store_error", "store_invalid_integer"}

\* An entry the specification calls invalid: no product_id, or a quantity
\* that is not a positive integer.
NotAPositiveIntegerEntry(e) ==
  e.product_id = 0 \/ e.quantity.k # "int" \/ e.quantity.v <= 0

IsValidationError(resp) ==
  resp.message.type \in {"address_and_items_required", "invalid_item"}

\* C10: a request whose items list is missing or empty, or has an entry whose
\* quantity is not a positive integer (zero, negative, missing, fractional)
\* or whose product_id is missing, fails with a validation error and persists
\* nothing.  (Requests whose address is the requester's own, or absent, and
\* that met no store failure.)
C10_InvalidItemsRejectedAsValidation ==
  \A r \in Requests :
    (/\ Done(r) /\ ~req[r].faulted
     /\ req[r].address_id = 0 \/ ~AddressNotOwned(r)
     /\ \/ ~req[r].itemsIsArray
        \/ req[r].items = <<>>
        \/ \E k \in 1..Len(req[r].items) : NotAPositiveIntegerEntry(req[r].items[k]))
      => /\ IsValidationError(req[r].response)
         /\ NothingPersisted(r)

\* ----------------------------------------------------- order-content claims
ItemRows(id) == {it \in order_items : it.order_id = id}

\* C11: every committed order has exactly one order_items row per entry of
\* the request's items list, with the entry's product_id and quantity and the
\* new order's id: the commit adds as many rows as the list has entries, as
\* many rows for each (product_id, quantity) as the list has such entries,
\* all of them rows of the one new order.  Rows are never removed, no
\* committed order is without rows, and a request that names a missing
\* product persists nothing.
C11_OneItemRowPerEntry ==
  /\ [][\A r \in Requests :
          (req[r].pc = "commit" /\ req'[r].response.status = 201)
            => LET new == order_items' \ order_items
                   its == req[r].items
               IN /\ Cardinality(new) = Len(its)
                  /\ \A it \in new : it.order_id = req[r].order_id
                  /\ \E o \in orders' \ orders : o.id = req[r].order_id
                  /\ ItemRows(req[r].order_id) = {}
                  /\ \A k \in 1..Len(its) :
                       Cardinality({it \in new :
                                      /\ it.product_id = its[k].product_id
                                      /\ QInt(it.quantity) = its[k].quantity})
                         = Cardinality({j \in 1..Len(its) : its[j] = its[k]})]_vars
  /\ [][order_items \subseteq order_items']_vars
  /\ [](\A o \in orders : ItemRows(o.id) # {})
  /\ [](\A r \in Requests :
          (Done(r) /\ req[r].response.message.type = "product_not_found")
            => NothingPersisted(r))

\* An order for the same product twice has two rows, beside requests that
\* named a missing product and persisted nothing.
C11_Witness ==
  \E o \in orders :
    /\ Cardinality({it \in ItemRows(o.id) : it.product_id = 2 /\ it.quantity = 1}) = 2
    /\ Cardinality(ItemRows(o.id)) = 2
    /\ \E r \in Requests : Done(r) /\ req[r].response.message = ProductNotFound(3)

\* C14: in runs of order placements only, for every product the initial
\* stock minus the committed stock is the sum of the quantities of the
\* committed order_items rows of that product.
C14_StockMatchesCommittedItems ==
  \A p \in ProductIds :
    InitialStock(p) - products[p].stock_quantity
      = SumQuantity({it \in order_items : it.product_id = p})

\* The orders of two requests that were in flight together are committed
\* and have taken 2 and 2 off the stock of 5.
C14_Witness ==
  /\ \A r \in Requests : Done(r) /\ req[r].response.status = 201
  /\ Cardinality(orders) = 2
  /\ products[1].stock_quantity = 1

\* C13: no reader observes a partial order placement.  Every order in an
\* answered order-by-id or order-list response comes with all of its
\* order_items rows, and a product read returns the stock that the committed
\* orders account for, never the decrement of an open transaction.
C13_ReadersSeeWholeOrders ==
  /\ [](( /\ reader.pc = "done" /\ reader.code = 200
          /\ reader.kind \in {"byId", "list"})
         => \A o \in reader.rows :
              /\ {it \in reader.items : it.order_id = o.id} = ItemRows(o.id)
              /\ ItemRows(o.id) # {})
  /\ [][(reader.pc = "product" /\ reader'.code = 200)
          => reader'.stock =
               InitialStock(reader.id)
                 - SumQuantity({it \in order_items : it.product_id = reader.id})]_vars

\* The caller of r was answered with a timeout.
AnsweredTimeout(r) ==
  req[r].response.message \in {RequestTimeout, QueryReadTimeout}

\* C20: when the request, the connection or a statement of the order
\* transaction times out, the transaction is rolled back and the caller is
\* answered with a timeout error that no validation failure is answered
\* with: a request answered with a timeout has taken no stock and has no
\* orders or order_items row.
C20_TimeoutRollsBack ==
  \A r \in Requests :
    (Done(r) /\ AnsweredTimeout(r))
      => /\ NothingPersisted(r)
         /\ ~IsValidationError(req[r].response)
         /\ req[r].response.status # 400

\* ------------------------------------------------------ status-update claims
\* The step is a status-update request (answered in statusResp').
StatusStep == now' # now

\* C12: every newly committed order has status pending, payment_status
\* unpaid, the requester as user_id and the requested address as address_id;
\* and the status and payment_status of a committed order change only in a
\* step that is a successful status update of that order by an admin.
C12_NewOrdersPendingUnpaid ==
  /\ [][\A r \in Requests :
          (req[r].pc = "commit" /\ req'[r].response.status = 201)
            => \E o \in orders' \ orders :
                 /\ orders' \ orders = {o}
                 /\ o.id = req[r].order_id
                 /\ o.status = "pending" /\ o.payment_status = "unpaid"
                 /\ o.user_id = req[r].user
                 /\ o.address_id = req[r].address_id]_vars
  /\ [][\A o \in orders : \A o2 \in orders' :
          (o2.id = o.id
             /\ (o2.status # o.status \/ o2.payment_status # o.payment_status))
            => /\ StatusStep
               /\ statusResp'.code = 200
               /\ statusResp'.id = o.id
               /\ statusResp'.by = "admin"]_vars

\* A new order of the second customer is pending and unpaid beside an order
\* that a status update has moved on.
C12_Witness ==
  \E o, o2 \in orders :
    /\ o.user_id = "other" /\ o.address_id = 2
    /\ o.status = "pending" /\ o.payment_status = "unpaid"
    /\ o2.id # o.id /\ o2.payment_status = "paid"

\* C15: in every reachable state each order's status is one of pending,
\* processing, shipped, delivered, cancelled and its payment_status one of
\* unpaid, paid, refunded: the status update rejects every other provided
\* value, the empty string, null, 0 and false included.
C15_StatusValuesEnumerated ==
  \A o \in orders :
    /\ o.status \in validStatuses
    /\ o.payment_status \in validPaymentStatuses

\* The frame of a step that changes no row of any table.
NoRowChanges ==
  /\ orders' = orders /\ order_items' = order_items
  /\ products' = products /\ addresses' = addresses

\* A status-update step of an admin that the store served, for an id that
\* names no order.
MissingOrderStep ==
  /\ StatusStep
  /\ statusResp'.by = "admin" /\ statusResp'.code # 500
  /\ OrderRows(statusResp'.id) = {}

AbsentOrIn(x, list) == x = JsUndefined \/ (x.k = "string" /\ x.v \in list)

SuccessfulUpdateFrame ==
  (StatusStep /\ statusResp'.code = 200) =>
    LET id == statusResp'.id
        body == statusResp'.body
    IN /\ order_items' = order_items /\ products' = products
       /\ addresses' = addresses
       /\ {o \in orders' : o.id # id} = {o \in orders : o.id # id}
       /\ \E o \in orders, o2 \in orders' :
            /\ o.id = id /\ o2.id = id
            /\ orders' = (orders \ {o}) \cup {o2}
            /\ o2.user_id = o.user_id /\ o2.address_id = o.address_id
            /\ o2.total_price = o.total_price /\ o2.req = o.req
            /\ o2.updated_at = now' /\ o2.updated_at # o.updated_at
            /\ body.status = JsUndefined => o2.status = o.status
            /\ body.payment_status = JsUndefined
                 => o2.payment_status = o.payment_status
            /\ Includes(validStatuses, body.status) => o2.status = body.status.v
            /\ Includes(validPaymentStatuses, body.payment_status)
                 => o2.payment_status = body.payment_status.v

\* A status-update step of an admin, served by the store, with neither field.
NeitherFieldStep ==
  /\ StatusStep
  /\ statusResp'.by = "admin" /\ statusResp'.code # 500
  /\ statusResp'.body = StatusBody(JsUndefined, JsUndefined)

\* C17 as stated: a successful status update changes exactly the provided
\* fields and updated_at of the addressed order and nothing else, and every
\* request providing neither field fails with ValidationError and changes
\* nothing.
C17_OnlyProvidedFieldsChange ==
  [][/\ SuccessfulUpdateFrame
     /\ NeitherFieldStep => (statusResp'.code = 400 /\ NoRowChanges)]_vars

\* C17 amended: the same frame for a successful update; a request providing
\* neither field changes nothing and fails, with ValidationError when the
\* order exists, and with ValidationError or NotFound when it does not.
C17_OnlyProvidedFieldsChangeOnExistingOrder ==
  [][/\ SuccessfulUpdateFrame
     /\ NeitherFieldStep =>
          /\ NoRowChanges
          /\ statusResp'.code \in {400, 404}
          /\ OrderRows(statusResp'.id) # {} => statusResp'.code = 400]_vars

\* An update of the payment_status alone has left a shipped order shipped,
\* beside an untouched second order.
C17_Witness ==
  /\ statusResp.code = 200
  /\ statusResp.body = StatusBody(JsUndefined, JsString("paid"))
  /\ statusResp.was = << "shipped", "unpaid" >>
  /\ \E o, o2 \in orders :
       /\ o.id = statusResp.id /\ o.status = "shipped"
       /\ o.payment_status = "paid" /\ o.updated_at = now
       /\ o2.id # o.id /\ o2.status = "pending" /\ o2.updated_at < now

\* C18: only an admin changes an order's status or payment_status.  A
\* status-update request of a user who is no admin is answered 403 and
\* changes no order; and every order whose status is not pending or whose
\* payment_status is not unpaid was updated by an admin's request.
C18_OnlyAdminUpdatesStatus ==
  /\ [][(StatusStep /\ statusResp'.by # "admin")
          => (statusResp'.code = 403 /\ NoRowChanges)]_vars
  /\ [](\A o \in orders :
          (o.status # "pending" \/ o.payment_status # "unpaid")
            => << o.id, "admin" >> \in statusLog)

\* A customer's request to ship an existing order was answered 403 and the
\* order is still pending.
C18_Witness ==
  /\ statusResp.code = 403
  /\ statusResp.by = "cust"
  /\ statusResp.body.status = JsString("shipped")
  /\ \E o \in orders : o.id = statusResp.id /\ o.status = "pending"

\* C19: the status update checks membership only, never the transition.  An
\* admin's request whose provided values are of the enumerated sets is
\* accepted on an existing order whatever its current status and
\* payment_status, and the order takes the provided values.
C19_AnyTransitionAccepted ==
  [][\A o \in orders :
       (/\ StatusStep
        /\ statusResp'.by = "admin" /\ statusResp'.code # 500
        /\ statusResp'.id = o.id
        /\ AbsentOrIn(statusResp'.body.status, validStatuses)
        /\ AbsentOrIn(statusResp'.body.payment_status, validPaymentStatuses)
        /\ statusResp'.body # StatusBody(JsUndefined, JsUndefined))
         => /\ statusResp'.code = 200
            /\ \E o2 \in orders' :
                 /\ o2.id = o.id
                 /\ o2.status = IF statusResp'.body.status = JsUndefined
                                  THEN o.status ELSE statusResp'.body.status.v
                 /\ o2.payment_status =
                      IF statusResp'.body.payment_status = JsUndefined
                        THEN o.payment_status
                        ELSE statusResp'.body.payment_status.v]_vars

\* A delivered order was moved back to pending.
C19_Witness ==
  /\ statusResp.code = 200
  /\ statusResp.was[1] = "delivered"
  /\ statusResp.body.status = JsString("pending")
  /\ \E o \in orders : o.id = statusResp.id /\ o.status = "pending"

\* C30: a status update never changes a product's stock_quantity.  Every
\* status-update step, whatever it answers, leaves every products row as it
\* was; cancelling an order or refunding its payment hands no ordered
\* quantity back to the stock.
C30_StatusUpdateKeepsStock ==
  [][StatusStep => products' = products]_vars

\* An order of two units of product 1 was cancelled and refunded, and the two
\* units are still off the stock.
C30_Witness ==
  /\ statusResp.code = 200
  /\ \E o \in orders :
       /\ o.id = statusResp.id
       /\ o.status = "cancelled" /\ o.payment_status = "refunded"
       /\ \E it \in ItemRows(o.id) : it.product_id = 1 /\ it.quantity = 2
  /\ products[1].stock_quantity
       = InitialStock(1) - SumQuantity({it \in order_items : it.product_id = 1})
  /\ products[1].stock_quantity < InitialStock(1)

\* ------------------------------------------------- repeated-product claims
\* The quantity that the first n entries of an items list request of
\* product p.
RECURSIVE RequestedOf(_, _, _)
RequestedOf(items, n, p) ==
  IF n = 0 THEN 0
  ELSE RequestedOf(items, n - 1, p)
         + (IF items[n].product_id = p /\ items[n].quantity.k = "int"
              THEN items[n].quantity.v ELSE 0)

\* Every entry of the items list of r names an existing product and a
\* positive whole quantity.
AllEntriesOrderable(r) ==
  \A k \in 1..Len(req[r].items) :
    /\ RowExists(req[r].items[k].product_id)
    /\ req[r].items[k].quantity.k = "int"
    /\ req[r].items[k].quantity.v > 0

\* C26: when one items list names the same product in several entries, each
\* entry is checked against the stock left after the earlier entries of the
\* same request.  The stock check of entry k passes exactly when the
\* committed stock less the quantities of the entries before k of the same
\* product covers the quantity of k; so a request of orderable entries,
\* undisturbed by store failures and admin writes, commits exactly when for
\* every product the sum of its quantities is at most the stock at the start,
\* and otherwise fails with insufficient stock and persists nothing.
C26_RepeatedProductAgainstRemainingStock ==
  /\ [][\A r \in Requests :
          (req[r].pc = "select" /\ req'[r].pc \in {"update", "rollback"}
           /\ req'[r].error.type \in {"none", "insufficient_stock"})
            => LET e == req[r].items[req[r].idx]
                   left == products[e.product_id].stock_quantity
                             - RequestedOf(req[r].items, req[r].idx - 1, e.product_id)
               IN /\ (req'[r].pc = "update") <=> ~LessThanQuantity(left, e.quantity)
                  /\ (req'[r].pc = "rollback")
                       => (req'[r].error
                             = InsufficientStock(e.product_id, left, e.quantity))]_vars
  /\ [](\A r \in Requests :
          (/\ Done(r) /\ req[r].began /\ ~req[r].faulted /\ adminOps = 0
           /\ AllEntriesOrderable(r))
            => /\ (req[r].response.status = 201)
                    <=> (\A p \in ProductIds :
                           RequestedOf(req[r].items, Len(req[r].items), p)
                             <= req[r].stockAtArrival[p])
               /\ (req[r].response.status # 201)
                    => (/\ req[r].response.message.type = "insufficient_stock"
                        /\ NothingPersisted(r)))

\* Two entries of three units of product 1, of which five were in stock: the
\* second entry found two left, the request failed and the three units of
\* the first entry are back.
C26_Witness ==
  \E r \in Requests :
    /\ Done(r)
    /\ req[r].items = << Item(1, QInt(3)), Item(1, QInt(3)) >>
    /\ req[r].response.message = InsufficientStock(1, 2, QInt(3))
    /\ req[r].stockAtArrival[1] = 5
    /\ products[1].stock_quantity = 5
    /\ NothingPersisted(r)

\* ------------------------------------------------------- error-path claims
\* C21: when a step of the order transaction fails, the error reported to the
\* caller is the originating error of that step, unchanged, on every path,
\* the one on which the ROLLBACK of the catch block fails included: a request
\* whose transaction raised an error is answered with that error.
C21_OriginatingErrorReported ==
  \A r \in Requests :
    (Done(r) /\ req[r].began /\ req[r].error # NoError)
      => req[r].response = ErrorResponse(req[r].error)

\* The message is the text of an exception raised by the store or its driver.
RawStoreException(m) ==
  m.type \in {"store_error", "store_invalid_integer", "store_foreign_key"}

\* C22: the failure response of order placement carries no internal failure
\* detail.  The message of a failure answer is never the text of a raw store
\* exception, and two requests that failed with raw store exceptions are
\* answered with the same message whatever the exceptions' texts.
C22_NoStoreDetailsInResponse ==
  /\ \A r \in Requests :
       (Done(r) /\ req[r].response.status >= 400)
         => ~RawStoreException(req[r].response.message)
  /\ \A r1, r2 \in Requests :
       (/\ Done(r1) /\ Done(r2)
        /\ RawStoreException(req[r1].error) /\ RawStoreException(req[r2].error))
         => req[r1].response.message = req[r2].response.message

\* C27: order creation answers 201 if and only if its transaction committed.
\* A request is answered 201 exactly when an orders row of it is committed,
\* and a request answered with a failure status, a failure raised after the
\* COMMIT included, has taken no stock and has no orders or order_items row.
C27_CreatedIffCommitted ==
  \A r \in Requests :
    Done(r)
      => /\ (req[r].response.status = 201)
              <=> (\E o \in orders : o.req = req[r].n)
         /\ (req[r].response.status >= 400) => NothingPersisted(r)

\* ------------------------------------------------------------- read claims
\* The step answers a read request.
ReadAnswered == reader.pc # "done" /\ reader'.pc = "done"

\* C24: a user who is no admin reads only their own orders.  The order query
\* of a fetch by id by a user who owns no order of that id answers 404, and
\* answers exactly what it answers for an id that no order has; every order
\* in an answer to a user who is no admin has the requester as user_id; and
\* the order query of an admin selects every order, of a customer every order
\* of their own.
C24_ReadsOnlyOwnOrders ==
  /\ [][(reader.pc = "order" /\ reader' # reader /\ ~reader'.failed
         /\ reader.kind = "byId" /\ reader.user # "admin"
         /\ ~\E o \in orders : o.id = reader.id /\ o.user_id = reader.user)
          => reader' = [reader EXCEPT !.pc = "done", !.code = 404]]_vars
  /\ [][(reader.pc = "order" /\ reader' # reader /\ ~reader'.failed
         /\ reader'.code # 404)
          => reader'.rows =
               {o \in orders :
                  /\ reader.user # "admin" => o.user_id = reader.user
                  /\ reader.kind = "byId" => o.id = reader.id}]_vars
  /\ [](\A o \in reader.rows : reader.user # "admin" => o.user_id = reader.user)

\* A customer asked for the committed order of another customer and was
\* answered 404 without a row.
C24_Witness ==
  /\ reader.pc = "done" /\ reader.code = 404 /\ reader.kind = "byId"
  /\ reader.user = "other" /\ reader.rows = {} /\ reader.items = {}
  /\ \E o \in orders : o.id = reader.id /\ o.user_id = "cust"

\* C25: reads are idempotent and write nothing.  A step of a read request
\* changes no orders, order_items, products or customer_addresses row; and
\* when the same request was answered twice and nothing was committed from
\* the arrival of the first to the answer of the second, both answers carry
\* the same orders and the same items.
C25_ReadsIdempotent ==
  /\ [][reader' # reader
          => UNCHANGED << products, orders, order_items, addresses >>]_vars
  /\ []((/\ reader.pc = "done" /\ reader.prev # << >>
          /\ reader.code = 200 /\ reader.prev[1].code = 200
          /\ reader.snap = << products, orders, order_items >>)
           => /\ reader.rows = reader.prev[1].rows
              /\ reader.items = reader.prev[1].items)

\* ---------------------------------------------------------- address claims
\* C23: every committed order's address_id references an existing address
\* whose owner is the order's customer, also when the address is deleted or
\* updated between the ownership check of the placement and its order insert
\* and when the owner asks to delete an address that an order references; and
\* an address request never changes the owner of a row that it keeps.
C23_OrderAddressExistsAndOwned ==
  /\ [](\A o \in orders :
          /\ o.address_id \in AddressIds
          /\ addresses[o.address_id] = o.user_id)
  /\ [][\A a \in AddressIds :
          addresses'[a] # addresses[a]
            => /\ addresses'[a] = Deleted
               /\ addrReq.kind = "delete" /\ addrReq.user = addresses[a]
               /\ ~\E o \in orders : o.address_id = a]_vars

\* The owner deleted address 1 after the ownership check of an order for it:
\* the order insert was rejected and nothing of the order persists.  The
\* other customer's order is committed, and the delete of its address was
\* rejected.
C23_Witness ==
  /\ addresses[1] = Deleted
  /\ \E r \in Requests :
       /\ Done(r) /\ req[r].address_id = 1
       /\ req[r].response = ErrorResponse(ForeignKeyViolation)
       /\ NothingPersisted(r)
  /\ \E o \in orders : o.address_id = 2 /\ o.user_id = "other"
  /\ addresses[2] = "other"
  /\ addrReq.pc = "done" /\ addrReq.kind = "delete" /\ addrReq.id = 2
  /\ addrReq.user = "other" /\ addrReq.code = 500

\* --------------------------------------------------------- progress claims
\* Request r holds the client of its instance's pool.
HoldsClient(r) == req[r].pc \in TxStatementPcs \cup {"rollback"}

\* C28 as stated: every request that waits for a pooled client eventually
\* acquires it, in every run in which no call is rejected by the store.
C28_EveryRequestAcquiresClient ==
  \A r \in Requests :
    (req[r].pc = "connect" /\ faults = 0) ~> (req[r].pc = "begin" \/ faults > 0)

\* C28: on every path after the client was acquired it is released exactly
\* once, and the handler queries the pool only before it holds the client:
\* the idle clients of an instance are the pool's clients less the requests
\* of the instance between pool.connect and the release, and no request
\* holds a client while at its address check.  Hence a checked-out client
\* always returns to the pool, and a request that waits for one eventually
\* acquires it or is answered 500 without having held one.
C28_ClientReleasedOnce ==
  /\ [](\A i \in Instances :
          pool[i] = PoolMax
                      - Cardinality({r \in Requests : req[r].inst = i /\ HoldsClient(r)}))
  /\ [](\A r \in Requests :
          /\ req[r].pc = "address" => ~tx[r].active
          /\ Done(r) => ~tx[r].active)
  /\ \A i \in Instances : (pool[i] = 0) ~> (pool[i] = PoolMax)
  /\ \A r \in Requests :
       (req[r].pc = "connect")
         ~> (req[r].pc = "begin"
             \/ (Done(r) /\ ~req[r].began /\ req[r].response.status = 500))

\* The ROLLBACK of a failed order was rejected, the request is answered and
\* the client of its instance is idle again.
C28_Witness ==
  \E r \in Requests :
    /\ Done(r) /\ req[r].began /\ faults = 1
    /\ req[r].error.type = "insufficient_stock"
    /\ req[r].response = ErrorResponse(StoreError)
    /\ pool[req[r].inst] = PoolMax

\* C29: two concurrent placements that name the same two products in
\* opposite order both terminate.  Every request in flight is eventually
\* answered; an answered request has no open transaction and holds no row
\* lock; and a request answered with a failure has taken no stock and has no
\* orders or order_items row.
C29_OppositeOrdersTerminate ==
  /\ \A r \in Requests : (r \in InFlight) ~> Done(r)
  /\ [](\A r \in Requests :
          Done(r)
            => /\ req[r].response.status # 0
               /\ tx[r] = NoTx
               /\ \A p \in ProductIds : lock[p] # r
               /\ (req[r].response.status # 201) => NothingPersisted(r))

\* The two requests waited for each other's row; the store aborted one, which
\* persisted nothing, and the other committed.
C29_Witness ==
  \E r, r2 \in Requests :
    /\ Done(r) /\ Done(r2) /\ faults = 0
    /\ req[r].items # req[r2].items
    /\ req[r].began /\ req[r].faulted /\ req[r].response = ErrorResponse(StoreError)
    /\ NothingPersisted(r)
    /\ req[r2].response.status = 201
    /\ \E o \in orders : o.req = req[r2].n

====
